---- MODULE Spec2Model ----
(***************************************************************************)
(* AsyncSession of async-ssh2-lite: a session wrapper that drives a        *)
(* non-blocking ssh2 protocol engine through a retry-on-would-block        *)
(* adapter (AsyncSessionStream::read_and_write_with).                      *)
(*                                                                         *)
(* One caller task drives one session.  A call of an adapted method runs   *)
(* synchronously up to its only suspension point (the readiness wait of    *)
(* the adapter); the steps of the model are therefore: start a call, wake  *)
(* a suspended call, drop (cancel) a suspended call, fail the readiness    *)
(* wait, and the transport becoming ready.                                 *)
(*                                                                         *)
(* Construction (AsyncSession::new, get_session) is modelled call by call  *)
(* of the engine; the error conversions of error.rs are pure operators.    *)
(***************************************************************************)
EXTENDS Integers, FiniteSets, Sequences, TLC

\* ------------------------------------------------------------------ bounds
\* most would-block answers the engine gives for one logical operation
MaxWouldBlock == 2
\* success values of value-returning engine calls are 0..MaxValue
MaxValue == 1
\* the size argument of scp_send ranges over 0..MaxFileSize
MaxFileSize == 1
\* the agent holds 0..MaxIdentities identities
MaxIdentities == 1
\* set_timeout is called with 0, MaxTimeout or the largest u32 milliseconds
MaxTimeout == 1000
\* set_keepalive is called with an interval of 0..MaxInterval
MaxInterval == 1

VARIABLES
    pc,          \* "constructing" | "idle" | "waiting" (suspended in the adapter) |
                 \* "panicked"
    cur,         \* the method of the current / last call, "none" before any
    arg,         \* its size argument (scp_send), 0 otherwise
    outcome,     \* what the caller of the current / last call observed
    ret,         \* what read_and_write_with(..).await resolved to
    lastEngine,  \* what the last closure invocation (engine call) returned
    nInvoke,     \* closure invocations of the current / last call
    nWouldBlock, \* would-block answers among them
    nWait,       \* readiness waits of the current / last call
    hint,        \* directions the suspended call waits on
    ready,       \* directions the transport became ready in since the call suspended
    engine,      \* the protocol engine (AsyncSession.inner)
    plan,        \* what the engine had scripted when the logical operation began
    wbSeen,      \* would-block answers seen for that logical operation
    resumed,     \* the call re-issues the method a cancelled call had suspended in
    afterCancel, \* whether the call follows a cancelled call, or how the call was cancelled
    identities,  \* number of identities the local ssh agent holds for the current call
    cfg,         \* the SessionConfiguration the caller builds and passes to new
    npc,         \* position of the construction: "config", "blocking", "fields",
                 \* "bind", "wrap", "done" or "failed"
    field,       \* index of the configuration field get_session looks at next
    built,       \* what AsyncSession::new returned
    calls,       \* engine / agent calls made by the construction or the current call
    conv         \* the error value under conversion (error.rs)

\* the construction's own state
consVars == <<cfg, npc, field, built>>

\* what no session method touches
auxVars == <<consVars, calls, conv>>

\* the state of the calls on a constructed session, engine and pc apart
sessVars == <<cur, arg, outcome, ret, lastEngine, nInvoke, nWouldBlock, nWait,
              hint, ready, plan, wbSeen, resumed, afterCancel, identities>>

vars == <<pc, cur, arg, outcome, ret, lastEngine, nInvoke, nWouldBlock, nWait,
          hint, ready, engine, plan, wbSeen, resumed, afterCancel,
          identities, cfg, npc, field, built, calls, conv>>

\* ------------------------------------------------------------ result values
NoErr == [variant |-> "none", code |-> "none"]

\* no result yet
Pending == [tag |-> "None", val |-> 0, err |-> NoErr, stream |-> "none"]

Ok(v) == [tag |-> "Ok", val |-> v, err |-> NoErr, stream |-> "none"]

Err(variant, code) ==
    [tag |-> "Err", val |-> 0, err |-> [variant |-> variant, code |-> code],
     stream |-> "none"]

\* the call unwound through todo!()
Panic == [tag |-> "Panic", val |-> 0, err |-> NoErr, stream |-> "none"]

\* the suspended future was dropped by its caller
Cancelled == [tag |-> "Cancelled", val |-> 0, err |-> NoErr, stream |-> "none"]

\* the engine's "retry later" answer: an Ssh2Error carrying EAGAIN
WouldBlock == Err("Ssh2", "EAGAIN")

IsWouldBlock(r) == r.tag = "Err" /\ r.err.code = "EAGAIN"

\* engine errors other than would-block
EngineErrors == {"AUTHENTICATION_FAILED", "SOCKET_DISCONNECT"}

\* io::Error::new(io::ErrorKind::Other, "no identities found in the ssh agent")
NoIdentities == Err("Io", "no identities found in the ssh agent")

\* ---------------------------------------------------------------- methods
\* methods that return the adapter's result as it is
PlainOps ==
    {"handshake", "userauth_password", "userauth_keyboard_interactive",
     "userauth_pubkey_file", "userauth_pubkey_memory", "userauth_hostbased_file",
     "auth_methods", "method_pref", "supported_algs", "keepalive_send",
     "disconnect"}

\* methods that open a derived resource
OpenerOps ==
    {"channel_session", "channel_direct_tcpip", "channel_forward_listen",
     "scp_recv", "scp_send", "sftp", "channel_open"}

AdaptedOps == PlainOps \cup OpenerOps

UserauthOps ==
    {"userauth_password", "userauth_keyboard_interactive", "userauth_pubkey_file",
     "userauth_pubkey_memory", "userauth_hostbased_file"}

\* engine calls whose success value is ()
UnitOps == UserauthOps \cup {"handshake", "method_pref", "disconnect"}

\* the engine call the closure of a method makes: each closure calls the
\* engine function of the method's own name
ClosureOp(op) == op

\* ------------------------------------------------------------------ engine
\* BlockDirections::Inbound, Outbound, Both
Directions == {{"read"}, {"write"}, {"read", "write"}}

NoScript == [op |-> "none", arg |-> 0, left |-> 0, total |-> 0, final |-> Pending]

\* the engine accepts a call only in the right protocol phase and rejects
\* out-of-order calls with a protocol error
EngineAccepts(eop, e) ==
    CASE eop = "handshake" -> e.phase = "new"
      [] eop \in {"method_pref", "supported_algs"} -> e.phase # "disconnected"
      [] eop = "scp_recv" -> e.phase = "authenticated" /\ e.file >= 0
      [] eop \in OpenerOps -> e.phase = "authenticated"
      [] OTHER -> e.phase \in {"handshaken", "authenticated"}

EngineValues(eop, e) ==
    CASE eop \in UnitOps -> {0}
      [] eop = "scp_recv" -> {e.file}
      [] eop = "scp_send" -> {0}
      [] OTHER -> 0 .. MaxValue

\* the results one logical engine operation can end with
EngineFinals(eop, e) ==
    {Err("Ssh2", c) : c \in EngineErrors}
        \cup (IF EngineAccepts(eop, e) THEN {Ok(v) : v \in EngineValues(eop, e)} ELSE {})

\* what the engine may do with a logical operation: answer would-block
\* `total` times, then end with `final`
Scripts(eop, a, e) ==
    {[op |-> eop, arg |-> a, left |-> n, total |-> n, final |-> f] :
        n \in 0 .. MaxWouldBlock, f \in EngineFinals(eop, e)}

\* the engine after the logical operation of script sc has ended
EngineEffect(e, sc) ==
    LET done == [e EXCEPT !.pending = NoScript, !.dirs = {}]
    IN  IF sc.final.tag # "Ok" THEN done
        ELSE CASE sc.op = "handshake" -> [done EXCEPT !.phase = "handshaken"]
               [] sc.op \in UserauthOps -> [done EXCEPT !.phase = "authenticated"]
               [] sc.op = "disconnect" -> [done EXCEPT !.phase = "disconnected"]
               [] sc.op = "scp_send" -> [done EXCEPT !.file = sc.arg]
               [] OTHER -> done

\* ------------------------------------------------------------ retry adapter
\* step 5 of the adapter: a closure error that is not would-block is wrapped
\* into the adapted error and returned; a success is returned as it is
Adapt(r) == IF r.tag = "Err" THEN Err("Ssh2", r.err.code) ELSE r

\* fn block_directions: the engine's block-direction query
block_directions_both(e) == {"read", "write"}

block_directions_none(e) == {}

block_directions(e) == e.dirs

\* at least one hinted direction is ready
Ready(d) == d \cap ready # {}

\* ---------------------------------------------------------- session methods
\* how a call that starts now follows a cancelled call: "no" (it does not),
\* "starved" (the cancelled call was dropped with the transport ready in no
\* direction) or "ready"
AfterCancel == IF outcome.tag = "Cancelled" THEN afterCancel ELSE "no"

\* Deliver with keepalive_send returning a constant instead of the engine's value
DeliverValueLost(op, r) ==
    IF op \in OpenerOps THEN Panic
    ELSE IF op = "keepalive_send" /\ r.tag = "Ok" THEN Ok(0)
    ELSE r

\* Deliver with disconnect ignoring the result of the adapted call
DeliverErrorSwallowed(op, r) ==
    IF op \in OpenerOps THEN Panic
    ELSE IF op = "disconnect" THEN Ok(0)
    ELSE r

\* what a method makes of the adapter's result: the plain methods return it;
\* the openers bind it to `ret` and then reach todo!()
Deliver(op, r) == IF op \in OpenerOps THEN Panic ELSE r

\* one closure invocation by the adapter and what follows it up to the next
\* suspension or the end of the call.  inv, wb, wt are the call's counters
\* before the invocation, res tells whether the call resumes a cancelled one,
\* e is the engine handle the closure calls into.
Attempt(op, a, e, inv, wb, wt, res) ==
    LET cont == e.pending.op = ClosureOp(op) /\ e.pending.arg = a
    IN  \E sc \in (IF cont THEN {e.pending} ELSE Scripts(ClosureOp(op), a, e)) :
            /\ nInvoke' = inv + 1
            /\ plan' = IF res \/ cont THEN plan ELSE sc
            /\ IF sc.left > 0
               THEN \E d \in Directions :
                    /\ lastEngine' = WouldBlock
                    /\ engine' = [e EXCEPT !.pending = [sc EXCEPT !.left = @ - 1],
                                            !.dirs = d]
                    /\ hint' = block_directions(engine')
                    /\ ready' = {}
                    /\ nWouldBlock' = wb + 1
                    /\ nWait' = wt + 1
                    /\ wbSeen' = (IF res \/ cont THEN wbSeen ELSE 0) + 1
                    /\ ret' = Pending
                    /\ outcome' = Pending
                    /\ pc' = "waiting"
               ELSE LET r == Adapt(sc.final)
                        o == Deliver(op, r)
                    IN  /\ lastEngine' = sc.final
                        /\ engine' = EngineEffect(e, sc)
                        /\ hint' = {}
                        /\ ready' = {}
                        /\ nWouldBlock' = wb
                        /\ nWait' = wt
                        /\ wbSeen' = IF res \/ cont THEN wbSeen ELSE 0
                        /\ ret' = r
                        /\ outcome' = o
                        /\ pc' = IF o.tag = "Panic" THEN "panicked" ELSE "idle"

\* AdaptedCall awaiting readiness before its first attempt
AdaptedCallWaitsFirst(op, a) ==
    /\ pc = "idle"
    /\ cur' = op
    /\ arg' = a
    /\ afterCancel' = AfterCancel
    /\ resumed' = FALSE
    /\ pc' = "waiting"
    /\ hint' = {"read", "write"}
    /\ ready' = {}
    /\ nInvoke' = 0
    /\ nWouldBlock' = 0
    /\ nWait' = 1
    /\ ret' = Pending
    /\ outcome' = Pending
    /\ lastEngine' = Pending
    /\ identities' = 0
    /\ calls' = << >>
    /\ UNCHANGED <<engine, plan, wbSeen, consVars, conv>>

\* AdaptedCall driving a re-initialised engine handle instead of self.inner
AdaptedCallFreshEngine(op, a) ==
    /\ pc = "idle"
    /\ cur' = op
    /\ arg' = a
    /\ afterCancel' = AfterCancel
    /\ LET res == outcome.tag = "Cancelled" /\ cur = op /\ arg = a
                    /\ engine.pending.op = ClosureOp(op)
       IN  /\ resumed' = res
           /\ Attempt(op, a, [engine EXCEPT !.pending = NoScript], 0, 0, 0, res)
    /\ identities' = 0
    /\ calls' = << >>
    /\ UNCHANGED <<consVars, conv>>

\* AdaptedCall refusing to run after a cancelled call (a busy flag left set)
AdaptedCallPoisoned(op, a) ==
    /\ pc = "idle"
    /\ outcome.tag # "Cancelled"
    /\ cur' = op
    /\ arg' = a
    /\ afterCancel' = "no"
    /\ resumed' = FALSE
    /\ Attempt(op, a, engine, 0, 0, 0, FALSE)
    /\ identities' = 0
    /\ calls' = << >>
    /\ UNCHANGED <<consVars, conv>>

AdaptedCallReentrant(op, a) ==
    /\ pc \in {"idle", "waiting"}
    /\ cur' = op
    /\ arg' = a
    /\ afterCancel' = AfterCancel
    /\ resumed' = FALSE
    /\ Attempt(op, a, engine, 0, 0, 0, FALSE)
    /\ identities' = 0
    /\ calls' = << >>
    /\ UNCHANGED <<consVars, conv>>

\* a call of an adapted method:
\*   self.stream.read_and_write_with(&self.inner, || self.inner.<op>(..)).await
AdaptedCall(op, a) ==
    /\ pc = "idle"
    /\ cur' = op
    /\ arg' = a
    /\ afterCancel' = AfterCancel
    /\ LET res == outcome.tag = "Cancelled" /\ cur = op /\ arg = a
                    /\ engine.pending.op = ClosureOp(op)
       IN  /\ resumed' = res
           /\ Attempt(op, a, engine, 0, 0, 0, res)
    /\ identities' = 0
    /\ calls' = << >>
    /\ UNCHANGED <<consVars, conv>>

handshake == AdaptedCall("handshake", 0)

userauth_password == AdaptedCall("userauth_password", 0)

userauth_keyboard_interactive == AdaptedCall("userauth_keyboard_interactive", 0)

userauth_pubkey_file == AdaptedCall("userauth_pubkey_file", 0)

userauth_pubkey_memory == AdaptedCall("userauth_pubkey_memory", 0)

userauth_hostbased_file == AdaptedCall("userauth_hostbased_file", 0)

auth_methods == AdaptedCall("auth_methods", 0)

method_pref == AdaptedCall("method_pref", 0)

supported_algs == AdaptedCall("supported_algs", 0)

keepalive_send == AdaptedCall("keepalive_send", 0)

disconnect == AdaptedCall("disconnect", 0)

channel_session == AdaptedCall("channel_session", 0)

channel_direct_tcpip == AdaptedCall("channel_direct_tcpip", 0)

channel_forward_listen == AdaptedCall("channel_forward_listen", 0)

scp_recv == AdaptedCall("scp_recv", 0)

scp_send == \E size \in 0 .. MaxFileSize : AdaptedCall("scp_send", size)

sftp == AdaptedCall("sftp", 0)

channel_open == AdaptedCall("channel_open", 0)

\* the suspended call is woken: a hinted direction is ready, go to step 1
Wake ==
    /\ pc = "waiting"
    /\ Ready(hint)
    /\ Attempt(cur, arg, engine, nInvoke, nWouldBlock, nWait, resumed)
    /\ UNCHANGED <<cur, arg, resumed, afterCancel, identities, auxVars>>

\* the readiness wait fails with a transport error, which ends the call
WaitFail ==
    /\ pc = "waiting"
    /\ LET r == Err("Io", "ConnectionReset")
           o == Deliver(cur, r)
       IN  /\ ret' = r
           /\ outcome' = o
           /\ pc' = IF o.tag = "Panic" THEN "panicked" ELSE "idle"
    /\ hint' = {}
    /\ ready' = {}
    /\ UNCHANGED <<cur, arg, lastEngine, nInvoke, nWouldBlock, nWait, engine, plan,
                   wbSeen, resumed, afterCancel, identities, auxVars>>

\* the caller drops the suspended future: nothing of the call runs again
CancelInvokesAgain ==
    /\ pc = "waiting"
    /\ pc' = "idle"
    /\ outcome' = Cancelled
    /\ afterCancel' = IF ready = {} THEN "starved" ELSE "ready"
    /\ hint' = {}
    /\ ready' = {}
    /\ nInvoke' = nInvoke + 1
    /\ engine' = [engine EXCEPT !.pending.left = IF @ > 0 THEN @ - 1 ELSE @]
    /\ UNCHANGED <<cur, arg, ret, lastEngine, nWouldBlock, nWait, plan, wbSeen,
                   resumed, identities, auxVars>>

Cancel ==
    /\ pc = "waiting"
    /\ pc' = "idle"
    /\ outcome' = Cancelled
    /\ afterCancel' = IF ready = {} THEN "starved" ELSE "ready"
    /\ hint' = {}
    /\ ready' = {}
    /\ UNCHANGED <<cur, arg, ret, lastEngine, nInvoke, nWouldBlock, nWait, engine,
                   plan, wbSeen, resumed, identities, auxVars>>

\* the transport becomes ready in one direction while a call is suspended on it
TransportReady ==
    /\ pc = "waiting"
    /\ \E d \in {"read", "write"} \ ready : ready' = ready \cup {d}
    /\ UNCHANGED <<pc, cur, arg, outcome, ret, lastEngine, nInvoke, nWouldBlock,
                   nWait, hint, engine, plan, wbSeen, resumed, afterCancel,
                   identities, auxVars>>

\* ------------------------------------------------------- agent and composites
\* one call into the engine or the agent: fn its name, ok whether it
\* succeeded, b / n / s its boolean, numeric and text argument
EngineCall(fn, ok, b, n, s) == [fn |-> fn, ok |-> ok, b |-> b, n |-> n, s |-> s]

\* fn agent: `let ret = self.inner.agent(); todo!()` -- whatever the engine
\* answered (a), the function unwinds
AgentOutcome(a) == Panic

\* fn userauth_agent: self.agent()? comes first; with an agent, an empty
\* identity list gives the "no identities" error, otherwise the result u of
\* agent.userauth(username, identities[0]) is returned
UserauthAgentOutcome(a, n, u) ==
    IF AgentOutcome(a).tag # "Ok" THEN AgentOutcome(a)
    ELSE IF n = 0 THEN NoIdentities
    ELSE u

\* a call that makes at most one synchronous engine call (answer a) and ends
\* with outcome o; n is the number of identities the agent holds at that time
\* and st the agent calls the method made
SyncCall(op, a, n, o, st) ==
    /\ pc = "idle"
    /\ cur' = op
    /\ arg' = 0
    /\ lastEngine' = a
    /\ ret' = Pending
    /\ outcome' = o
    /\ pc' = IF o.tag = "Panic" THEN "panicked" ELSE "idle"
    /\ nInvoke' = 0
    /\ nWouldBlock' = 0
    /\ nWait' = 0
    /\ resumed' = FALSE
    /\ afterCancel' = AfterCancel
    /\ identities' = n
    /\ calls' = st
    /\ UNCHANGED <<hint, ready, engine, plan, wbSeen, consVars, conv>>

\* the agent calls fn userauth_agent makes: connect, list_identities (then
\* identities()), and userauth with identities.get(0) when there is one
UserauthAgentCalls(a, n) ==
    <<EngineCall("agent", a.tag = "Ok", FALSE, 0, "")>> \o
    (IF AgentOutcome(a).tag # "Ok" THEN << >>
     ELSE <<EngineCall("connect", TRUE, FALSE, 0, ""),
            EngineCall("list_identities", TRUE, FALSE, 0, "")>> \o
          (IF n = 0 THEN << >>
           ELSE <<EngineCall("userauth", TRUE, FALSE, 0, "")>>))

\* the answers of the engine's synchronous agent() call
AgentAnswers == {Ok(0)} \cup {Err("Ssh2", c) : c \in EngineErrors}

agent ==
    \E a \in AgentAnswers, n \in 0 .. MaxIdentities :
        SyncCall("agent", a, n, AgentOutcome(a),
                 <<EngineCall("agent", a.tag = "Ok", FALSE, 0, "")>>)

userauth_agent ==
    \E a \in AgentAnswers, n \in 0 .. MaxIdentities,
       u \in {Ok(0)} \cup {Err("Io", c) : c \in EngineErrors} :
        SyncCall("userauth_agent", a, n, UserauthAgentOutcome(a, n, u),
                 UserauthAgentCalls(a, n))

\* fn userauth_agent_with_try_next: the body is todo!()
userauth_agent_with_try_next ==
    \E n \in 0 .. MaxIdentities :
        SyncCall("userauth_agent_with_try_next", Pending, n, Panic, << >>)

\* --------------------------------------------------------------- construction
\* the range of the engine's timeout argument: u32, narrowed to the 30 bits
\* the checker's integers can hold
U32 == 2 ^ 30

Banners == {"SSH-2.0-demo"}
TimeoutValues == {0, MaxTimeout, U32 - 1}
Intervals == 0 .. MaxInterval

\* Duration::from_millis(timeout_ms as u64) and Duration::as_millis, with a
\* Duration held as its whole milliseconds
DurationFromMillis(ms) == ms
AsMillis(d) == d

\* `as u32` of a u128
AsU32(x) == x % U32

\* new(stream, None): no configuration is passed
NoConfiguration ==
    [some |-> FALSE, banner |-> {}, allow_sigpipe |-> {}, compress |-> {},
     timeout |-> {}, keepalive |-> {}]

\* SessionConfiguration::new(): every Option field is None ({} here; Some(v)
\* is {v})
DefaultConfiguration == [NoConfiguration EXCEPT !.some = TRUE]

\* the order in which get_session looks at the fields
ConfigOrderCompressFirst ==
    <<"banner", "compress", "allow_sigpipe", "timeout", "keepalive">>

ConfigOrder == <<"banner", "allow_sigpipe", "compress", "timeout", "keepalive">>

\* the engine call get_session makes for field f holding value v
SetterCall(f, v, ok) ==
    CASE f = "banner" -> EngineCall("set_banner", ok, FALSE, 0, v)
      [] f = "allow_sigpipe" -> EngineCall("set_allow_sigpipe", ok, v, 0, "")
      [] f = "compress" -> EngineCall("set_compress", ok, v, 0, "")
      [] f = "timeout" -> EngineCall("set_timeout", ok, FALSE, AsU32(AsMillis(v)), "")
      [] f = "keepalive" -> EngineCall("set_keepalive", ok, v.want_reply, v.interval, "")

\* only session.set_banner(..)? has a result get_session looks at
SetterMayFail(f) == f = "banner"

\* the engine before Session::new()
NoEngine ==
    [phase |-> "none", file |-> -1, pending |-> NoScript, blocking |-> TRUE,
     dirs |-> {}]

\* Session::new() gives a blocking engine in its initial phase
FreshEngine == [NoEngine EXCEPT !.phase = "new"]

\* fn is_blocking
is_blocking(e) == e.blocking

SessionConfiguration_new ==
    /\ npc = "config"
    /\ cfg' = DefaultConfiguration
    /\ UNCHANGED <<pc, engine, sessVars, npc, field, built, calls, conv>>

\* a setter of the configuration stores Some(v) in field f
ConfigSet(f, v) ==
    /\ npc = "config"
    /\ cfg.some
    /\ cfg' = [cfg EXCEPT ![f] = {v}]
    /\ UNCHANGED <<pc, engine, sessVars, npc, field, built, calls, conv>>

set_banner == \E b \in Banners : ConfigSet("banner", b)

set_allow_sigpipe == \E block \in BOOLEAN : ConfigSet("allow_sigpipe", block)

set_compress == \E compress \in BOOLEAN : ConfigSet("compress", compress)

set_timeout ==
    \E timeout_ms \in TimeoutValues :
        ConfigSet("timeout", DurationFromMillis(timeout_ms))

set_keepalive ==
    \E want_reply \in BOOLEAN, interval \in Intervals :
        ConfigSet("keepalive", [want_reply |-> want_reply, interval |-> interval])

\* the construction ends with an error: `?` converts it to io::Error
ConstructionFails(call) ==
    /\ calls' = Append(calls, call)
    /\ built' = Err("Io", call.fn)
    /\ npc' = "failed"

\* AsyncSession::new -> get_session: Session::new()?
Session_new ==
    /\ npc = "config"
    /\ \E ok \in BOOLEAN :
        IF ok
        THEN /\ engine' = FreshEngine
             /\ calls' = Append(calls, EngineCall("Session::new", TRUE, FALSE, 0, ""))
             /\ npc' = "blocking"
             /\ UNCHANGED built
        ELSE /\ ConstructionFails(EngineCall("Session::new", FALSE, FALSE, 0, ""))
             /\ UNCHANGED engine
    /\ UNCHANGED <<pc, sessVars, cfg, field, conv>>

\* get_session: session.set_blocking(false)
set_blocking_skipped ==
    /\ npc = "blocking"
    /\ npc' = IF cfg.some THEN "fields" ELSE "bind"
    /\ field' = 1
    /\ UNCHANGED <<pc, engine, sessVars, cfg, built, calls, conv>>

set_blocking ==
    /\ npc = "blocking"
    /\ engine' = [engine EXCEPT !.blocking = FALSE]
    /\ calls' = Append(calls, EngineCall("set_blocking", TRUE, FALSE, 0, ""))
    /\ npc' = IF cfg.some THEN "fields" ELSE "bind"
    /\ field' = 1
    /\ UNCHANGED <<pc, sessVars, cfg, built, conv>>

\* get_session: one `if let Some(..) = configuration.<field>` block
apply_field_ignoring_result ==
    /\ npc = "fields"
    /\ LET f == ConfigOrder[field]
       IN  /\ IF cfg[f] = {}
              THEN UNCHANGED calls
              ELSE \E v \in cfg[f], ok \in {TRUE} \cup {~SetterMayFail(f)} :
                      calls' = Append(calls, SetterCall(f, v, ok))
           /\ npc' = IF field = Len(ConfigOrder) THEN "bind" ELSE "fields"
           /\ field' = field + 1
           /\ UNCHANGED built
    /\ UNCHANGED <<pc, engine, sessVars, cfg, conv>>

apply_field ==
    /\ npc = "fields"
    /\ LET f == ConfigOrder[field]
           more == /\ npc' = IF field = Len(ConfigOrder) THEN "bind" ELSE "fields"
                   /\ field' = field + 1
                   /\ UNCHANGED built
       IN  IF cfg[f] = {}
           THEN more /\ UNCHANGED calls
           ELSE \E v \in cfg[f], ok \in {TRUE} \cup {~SetterMayFail(f)} :
                   IF ok
                   THEN more /\ calls' = Append(calls, SetterCall(f, v, TRUE))
                   ELSE ConstructionFails(SetterCall(f, v, FALSE)) /\ UNCHANGED field
    /\ UNCHANGED <<pc, engine, sessVars, cfg, conv>>

\* AsyncSession::new: session.set_tcp_stream(stream.as_raw_fd()), which
\* returns nothing
set_tcp_stream ==
    /\ npc = "bind"
    /\ calls' = Append(calls, EngineCall("set_tcp_stream", TRUE, FALSE, 0, ""))
    /\ npc' = "wrap"
    /\ UNCHANGED <<pc, engine, sessVars, cfg, field, built, conv>>

\* AsyncSession::new: Ok(Self { inner: session, stream: Arc::new(stream) });
\* the configuration and the locals of the construction end here
AsyncSession_new ==
    /\ npc = "wrap"
    /\ built' = Ok(0)
    /\ npc' = "done"
    /\ pc' = "idle"
    /\ cfg' = NoConfiguration
    /\ field' = 0
    /\ calls' = << >>
    /\ UNCHANGED <<engine, sessVars, conv>>

\* ---------------------------------------------------------- error conversion
\* the bound on the conversions applied to one error value
MaxConversions == 3

\* what an error carries inside: nothing, an ssh2::Error with its code, a
\* boxed dyn Error, or a plain message
NoPayload == [type |-> "none", code |-> "none"]
Ssh2Errors == {[type |-> "Ssh2Error", code |-> c] : c \in EngineErrors \cup {"EAGAIN"}}
BoxedErrors == {[type |-> "BoxedError", code |-> c] : c \in {"custom", "other"}}
Messages == {[type |-> "message", code |-> "text"]}

\* io::Error: its kind and what it wraps
IoError(kind, inner) == [kind |-> kind, inner |-> inner]
NoIoError == IoError("none", NoPayload)
IoErrorKinds == {"WouldBlock", "Other", "ConnectionReset"}
IoErrors ==
    {IoError(k, i) : k \in IoErrorKinds,
                     i \in {NoPayload} \cup Ssh2Errors \cup BoxedErrors \cup Messages}

\* enum Error { Ssh2(Ssh2Error), Io(IoError), Other(Box<dyn Error>) }
ErrorSsh2(e) == [variant |-> "Ssh2", inner |-> e, io |-> NoIoError]
ErrorIo(i) == [variant |-> "Io", inner |-> NoPayload, io |-> i]
ErrorOther(e) == [variant |-> "Other", inner |-> e, io |-> NoIoError]
NoError == [variant |-> "none", inner |-> NoPayload, io |-> NoIoError]
Errors ==
    {ErrorSsh2(e) : e \in Ssh2Errors} \cup {ErrorIo(i) : i \in IoErrors}
        \cup {ErrorOther(e) : e \in BoxedErrors}

\* impl From<Ssh2Error> for Error
ErrorFromSsh2Error(e) == ErrorSsh2(e)

\* impl From<IoError> for Error
ErrorFromIoError(i) == ErrorIo(i)

\* impl From<Error> for IoError
IoErrorFromErrorKeepsWouldBlock(err) ==
    CASE err.variant = "Ssh2" ->
            IoError(IF err.inner.code = "EAGAIN" THEN "WouldBlock" ELSE "Other",
                    err.inner)
      [] err.variant = "Io" -> err.io
      [] err.variant = "Other" -> IoError("Other", err.inner)

IoErrorFromError(err) ==
    CASE err.variant = "Ssh2" -> IoError("Other", err.inner)
      [] err.variant = "Io" -> err.io
      [] err.variant = "Other" -> IoError("Other", err.inner)

\* no error value is under conversion
NoConversion ==
    [at |-> "none", n |-> 0, first |-> NoError, error |-> NoError, io |-> NoIoError]

\* a conversion starts from an Error, an io::Error or an ssh2::Error
Conversions ==
    {[NoConversion EXCEPT !.at = "error", !.first = e, !.error = e] : e \in Errors}
        \cup {[NoConversion EXCEPT !.at = "io", !.io = i] : i \in IoErrors}
        \cup {[NoConversion EXCEPT !.at = "ssh2", !.error = ErrorSsh2(e)]
                 : e \in Ssh2Errors}

\* `?` on an ssh2::Error in a function returning Error
from_ssh2 ==
    /\ conv.at = "ssh2"
    /\ conv' = [conv EXCEPT !.at = "error",
                            !.error = ErrorFromSsh2Error(conv.error.inner),
                            !.first = ErrorFromSsh2Error(conv.error.inner)]
    /\ UNCHANGED <<pc, engine, sessVars, consVars, calls>>

\* `?` or .into() on an io::Error in a function returning Error
from_io ==
    /\ conv.at = "io"
    /\ conv.n < MaxConversions
    /\ conv' = [conv EXCEPT !.at = "error", !.n = @ + 1,
                            !.error = ErrorFromIoError(conv.io),
                            !.first = IF conv.n = 0 THEN ErrorFromIoError(conv.io)
                                      ELSE @]
    /\ UNCHANGED <<pc, engine, sessVars, consVars, calls>>

\* `?` or .into() on an Error in a function returning io::Error
into_io ==
    /\ conv.at = "error"
    /\ conv.n < MaxConversions
    /\ conv' = [conv EXCEPT !.at = "io", !.n = @ + 1,
                            !.io = IoErrorFromError(conv.error)]
    /\ UNCHANGED <<pc, engine, sessVars, consVars, calls>>

\* ------------------------------------------------------------ specification
\* no method has been called on the session
SessionFresh ==
    /\ cur = "none"
    /\ arg = 0
    /\ outcome = Pending
    /\ ret = Pending
    /\ lastEngine = Pending
    /\ nInvoke = 0
    /\ nWouldBlock = 0
    /\ nWait = 0
    /\ hint = {}
    /\ ready = {}
    /\ plan = NoScript
    /\ wbSeen = 0
    /\ resumed = FALSE
    /\ afterCancel = "no"
    /\ identities = 0

\* the state AsyncSession::new leaves: a non-blocking engine in its initial
\* phase, bound to the stream
Constructed ==
    /\ pc = "idle"
    /\ engine = [FreshEngine EXCEPT !.blocking = FALSE]
    /\ SessionFresh
    /\ cfg = NoConfiguration
    /\ npc = "done"
    /\ field = 0
    /\ built = Ok(0)
    /\ calls = << >>

Init == Constructed /\ conv = NoConversion

\* before AsyncSession::new: the caller may build a configuration
InitNew ==
    /\ pc = "constructing"
    /\ engine = NoEngine
    /\ SessionFresh
    /\ cfg = NoConfiguration
    /\ npc = "config"
    /\ field = 0
    /\ built = Pending
    /\ calls = << >>
    /\ conv = NoConversion

\* an error value about to be converted, beside a constructed session
InitErr == Constructed /\ conv \in Conversions

Next ==
    \/ handshake
    \/ userauth_password
    \/ userauth_keyboard_interactive
    \/ userauth_agent
    \/ userauth_pubkey_file
    \/ userauth_pubkey_memory
    \/ userauth_hostbased_file
    \/ auth_methods
    \/ method_pref
    \/ supported_algs
    \/ agent
    \/ channel_session
    \/ channel_direct_tcpip
    \/ channel_forward_listen
    \/ scp_recv
    \/ scp_send
    \/ sftp
    \/ channel_open
    \/ keepalive_send
    \/ disconnect
    \/ userauth_agent_with_try_next
    \/ Wake
    \/ WaitFail
    \/ Cancel
    \/ TransportReady

Spec == Init /\ [][Next]_vars

\* calls that are never cancelled, on a transport that becomes ready and
\* under a reactor that wakes a task whose direction is ready
NextLive ==
    \/ handshake
    \/ userauth_password
    \/ Wake
    \/ WaitFail
    \/ TransportReady

SpecLive ==
    Init /\ [][NextLive]_vars /\ WF_vars(Wake) /\ WF_vars(TransportReady)

\* the construction alone
NextNew ==
    \/ SessionConfiguration_new
    \/ set_banner
    \/ set_allow_sigpipe
    \/ set_compress
    \/ set_timeout
    \/ set_keepalive
    \/ Session_new
    \/ set_blocking
    \/ apply_field
    \/ set_tcp_stream
    \/ AsyncSession_new

SpecNew == InitNew /\ [][NextNew]_vars

\* the life of a session: its construction, then the calls made on it
NextLife == NextNew \/ Next

SpecLife == InitNew /\ [][NextLife]_vars

\* the conversions of error.rs applied to every error value
NextErr ==
    \/ from_ssh2
    \/ from_io
    \/ into_io

SpecErr == InitErr /\ [][NextErr]_vars

\* ------------------------------------------------------------------ claims
\* the engine's last answer ended the logical operation with an error
FatalAnswer == lastEngine.tag = "Err" /\ ~IsWouldBlock(lastEngine)

\* C1: for every adapted method (plain or opener) the caller never observes
\* would-block, and an engine error other than would-block reaches the caller
\* as that error, after no further closure invocation.
C1_EngineErrorsReachCaller ==
    cur \in AdaptedOps =>
        /\ ~IsWouldBlock(outcome)
        /\ FatalAnswer =>
            /\ outcome = Err("Ssh2", lastEngine.err.code)
            /\ nInvoke = nWouldBlock + 1

\* C2: when the closure of an adapted call answers would-block N times and then
\* succeeds with v, the adapted call resolves to Ok(v) after N+1 closure
\* invocations and N readiness waits; the methods that return the adapter's
\* result hand exactly that to their caller.
C2_RetryIsTransparent ==
    (cur \in AdaptedOps /\ lastEngine.tag = "Ok") =>
        /\ pc # "waiting"
        /\ ret = Ok(lastEngine.val)
        /\ nInvoke = nWouldBlock + 1
        /\ nWait = nWouldBlock
        /\ cur \in PlainOps => outcome = ret

C2_Witness ==
    /\ cur = "keepalive_send"
    /\ nWouldBlock = MaxWouldBlock
    /\ lastEngine = Ok(MaxValue)
    /\ outcome = Ok(MaxValue)

\* C3: when the closure of an adapted call fails with an engine error other
\* than would-block, on the first attempt or after would-block retries, the
\* adapted call ends with that error and the failing invocation is the last.
C3_FatalErrorEndsCall ==
    (cur \in AdaptedOps /\ FatalAnswer) =>
        /\ pc # "waiting"
        /\ ret = Err("Ssh2", lastEngine.err.code)
        /\ nInvoke = nWouldBlock + 1
        /\ cur \in PlainOps => outcome = ret

C3_Witness ==
    /\ cur = "disconnect"
    /\ nWouldBlock = 1
    /\ lastEngine = Err("Ssh2", "SOCKET_DISCONNECT")
    /\ outcome = Err("Ssh2", "SOCKET_DISCONNECT")

\* C4: when the closure of an adapted call succeeds on its first invocation,
\* the call resolves with that value after exactly one invocation and without
\* any readiness wait.
C4_FirstSuccessNeverWaits ==
    (cur \in AdaptedOps /\ lastEngine.tag = "Ok" /\ nWouldBlock = 0) =>
        /\ nWait = 0
        /\ nInvoke = 1
        /\ ret = Ok(lastEngine.val)
        /\ cur \in PlainOps => outcome = ret

C4_Witness ==
    /\ cur = "method_pref"
    /\ nInvoke = 1
    /\ nWait = 0
    /\ outcome = Ok(0)

\* C5: every call of an adapted method, the openers included, that has ended
\* ended with a value or with one typed error, never with a panic.
C5_EveryCallEndsOkOrErr ==
    (cur \in AdaptedOps /\ pc # "waiting" /\ outcome.tag # "Cancelled") =>
        /\ pc # "panicked"
        /\ outcome.tag \in {"Ok", "Err"}
        /\ outcome.tag = "Err" <=> outcome.err.variant \in {"Ssh2", "Io", "Other"}

\* C6: whenever the engine call of an opener (or of agent) has succeeded, the
\* caller holds a derived resource that shares the session's stream.
C6_DerivedResourceSharesStream ==
    (cur \in OpenerOps \cup {"agent"} /\ lastEngine.tag = "Ok") =>
        /\ outcome.tag = "Ok"
        /\ outcome.stream = "session"

\* C7: userauth_agent with an agent that holds no identity fails with the
\* "no identities" error and makes no authentication attempt.
C7_NoIdentitiesError ==
    (cur = "userauth_agent" /\ lastEngine.tag = "Ok" /\ identities = 0) =>
        /\ outcome = NoIdentities
        /\ nInvoke = 0

\* C8: cancelling a suspended call leaves the engine where the last would-block
\* answer left it, and a fresh call of the same method continues from there:
\* it sees exactly the remaining would-block answers and resolves to the
\* outcome the engine had planned for the uncancelled call.
C8_ResumeAfterCancel ==
    /\ outcome.tag = "Cancelled" =>
        /\ engine.pending.op = ClosureOp(cur)
        /\ engine.pending.left = plan.total - wbSeen
        /\ engine.pending.final = plan.final
    /\ (resumed /\ lastEngine.tag # "None" /\ ~IsWouldBlock(lastEngine)) =>
        /\ pc # "waiting"
        /\ lastEngine = plan.final
        /\ wbSeen = plan.total
        /\ ret = Adapt(plan.final)
        /\ outcome = Deliver(cur, ret)

C8_Witness ==
    /\ resumed
    /\ cur = "handshake"
    /\ wbSeen = MaxWouldBlock
    /\ nWouldBlock = 1
    /\ outcome = Ok(0)
    /\ engine.phase = "handshaken"

\* C9: a suspended call that is cancelled, also while the transport is ready
\* in no direction, leaves its caller with a cancellation and no engine error;
\* the session then accepts a call of every adapted method, and that call
\* invokes its closure and ends as the engine answers.
C9_CancelThenUsable ==
    /\ outcome.tag = "Cancelled" =>
        /\ pc = "idle"
        /\ ret.tag = "None"
        /\ IsWouldBlock(lastEngine)
        /\ \A op \in AdaptedOps : ENABLED AdaptedCall(op, 0)
    /\ (afterCancel # "no" /\ outcome.tag # "Cancelled" /\ cur \in AdaptedOps) =>
        /\ nInvoke >= 1
        /\ (lastEngine.tag = "Ok" \/ FatalAnswer) =>
            /\ ret = Adapt(lastEngine)
            /\ outcome = Deliver(cur, ret)

C9_Witness ==
    /\ afterCancel = "starved"
    /\ nInvoke = 1
    /\ cur = "handshake"
    /\ outcome = Ok(0)

\* C10: on an authenticated session a successful scp_send of N bytes gives the
\* caller the channel to write them to, and a successful scp_recv of the path
\* gives the caller the channel and a stat whose size is N.
C10_ScpRoundTrip ==
    /\ (cur = "scp_send" /\ lastEngine.tag = "Ok") =>
        /\ outcome.tag = "Ok"
        /\ outcome.stream = "session"
    /\ (cur = "scp_recv" /\ lastEngine.tag = "Ok") =>
        /\ outcome.tag = "Ok"
        /\ outcome.val = engine.file

\* the engine setters get_session may call for a configuration
SetterNames ==
    {"set_banner", "set_allow_sigpipe", "set_compress", "set_timeout",
     "set_keepalive"}

\* the setter calls the construction has made so far, in the order made
AppliedSetters == SelectSeq(calls, LAMBDA c : c.fn \in SetterNames)

\* what the claim expects of configuration c: one call per field present,
\* with the value the caller stored, banner first and keepalive last
ExpectedSetters(c) ==
    (IF c.banner = {} THEN << >>
     ELSE <<EngineCall("set_banner", TRUE, FALSE, 0, CHOOSE b \in c.banner : TRUE)>>)
    \o (IF c.allow_sigpipe = {} THEN << >>
        ELSE <<EngineCall("set_allow_sigpipe", TRUE,
                          CHOOSE b \in c.allow_sigpipe : TRUE, 0, "")>>)
    \o (IF c.compress = {} THEN << >>
        ELSE <<EngineCall("set_compress", TRUE, CHOOSE b \in c.compress : TRUE, 0, "")>>)
    \o (IF c.timeout = {} THEN << >>
        ELSE <<EngineCall("set_timeout", TRUE, FALSE, CHOOSE ms \in c.timeout : TRUE, "")>>)
    \o (IF c.keepalive = {} THEN << >>
        ELSE LET k == CHOOSE k \in c.keepalive : TRUE
             IN  <<EngineCall("set_keepalive", TRUE, k.want_reply, k.interval, "")>>)

\* C11: the fields present in the configuration are applied to the engine in
\* the fixed order banner, allow-sigpipe, compress, timeout, keepalive, each
\* with the value the caller set and whatever the order of the caller's
\* setter calls; for an absent field, and with no configuration at all, the
\* engine setter is never called.
C11_ConfigurationOrder ==
    (npc \in {"blocking", "fields", "bind", "wrap", "failed"}) =>
        LET a == AppliedSetters
            e == ExpectedSetters(cfg)
        IN  /\ Len(a) <= Len(e)
            /\ \A i \in 1 .. Len(a) : [a[i] EXCEPT !.ok = TRUE] = e[i]
            /\ (npc \in {"bind", "wrap"} => a = e)

C11_Witness ==
    /\ npc = "wrap"
    /\ \A f \in {"banner", "allow_sigpipe", "compress", "timeout", "keepalive"} :
          cfg[f] # {}
    /\ cfg.timeout = {U32 - 1}
    /\ Len(AppliedSetters) = 5

\* the engine calls of the construction that failed
FailedCalls == {i \in 1 .. Len(calls) : ~calls[i].ok}

\* C12: AsyncSession::new fails with an I/O error whenever a step of the
\* construction fails in the engine; then no session is produced, no later
\* configuration step is applied and the engine is never bound to the stream.
C12_ConstructionFailure ==
    (pc = "constructing") =>
        /\ (FailedCalls # {} <=> npc = "failed")
        /\ (npc = "failed" =>
               /\ built.tag = "Err"
               /\ built.err.variant = "Io"
               /\ FailedCalls = {Len(calls)}
               /\ \A i \in 1 .. Len(calls) : calls[i].fn # "set_tcp_stream")
        /\ (npc # "failed" => built = Pending)

C12_Witness ==
    /\ npc = "failed"
    /\ pc = "constructing"
    /\ calls[Len(calls)].fn = "set_banner"
    /\ cfg.compress # {}
    /\ cfg.keepalive # {}

\* the names of the calls the current method made, in order
CallNames == [i \in 1 .. Len(calls) |-> calls[i].fn]

\* C13: userauth_agent with an agent that holds identities connects, lists
\* the identities, selects the identity at index 0 and makes exactly one
\* authentication attempt, with that identity; the result of that attempt
\* is what the caller gets.
C13_AgentStepsInOrder ==
    (cur = "userauth_agent" /\ lastEngine.tag = "Ok" /\ identities >= 1) =>
        /\ CallNames = <<"agent", "connect", "list_identities", "userauth">>
        /\ calls[4].n = 0
        /\ outcome.tag \in {"Ok", "Err"}

\* C14: userauth_agent_with_try_next tries the agent's identities in order
\* and ends with success at the first identity the server accepts, or with
\* an error when the list is empty or every identity was refused.
C14_TryNextIterates ==
    (cur = "userauth_agent_with_try_next") =>
        /\ outcome.tag \in {"Ok", "Err"}
        /\ (identities = 0 => outcome.tag = "Err")
        /\ (outcome.tag = "Ok" =>
               /\ calls # << >>
               /\ calls[Len(calls)] = EngineCall("userauth", TRUE, FALSE, Len(calls) - 1, ""))

\* C15: while a call is suspended the adapter waits on exactly the
\* directions the engine reported for the would-block, and the closure is
\* invoked again only from a state in which a hinted direction is ready:
\* never while none is, and readiness of a direction that was not hinted
\* does not count.
C15_WaitsOnHintedDirections ==
    /\ [](pc = "waiting" => (hint = engine.dirs /\ hint # {}))
    /\ [][(pc = "waiting" /\ nInvoke' # nInvoke) =>
              (nInvoke' = nInvoke + 1 /\ hint \cap ready # {})]_vars

C15_Witness ==
    /\ pc = "waiting"
    /\ nInvoke = 2
    /\ hint = {"read"}
    /\ ready = {"write"}
    /\ ~ENABLED Wake

\* C16: cancelling a suspended call invokes its closure zero further times
\* and touches nothing of the engine; while the call stays cancelled the
\* engine is exactly as the last would-block attempt left it (that
\* operation unfinished, its block directions still reported), and the only
\* step that changes it is the first invocation of a new call.
C16_CancelledCallIsInert ==
    /\ [](outcome.tag = "Cancelled" =>
              /\ pc = "idle"
              /\ lastEngine = WouldBlock
              /\ engine.pending.op = cur
              /\ engine.dirs # {})
    /\ [][/\ (outcome'.tag = "Cancelled" =>
                 (nInvoke' = nInvoke /\ engine' = engine /\ lastEngine' = lastEngine))
          /\ ((outcome.tag = "Cancelled" /\ (engine' # engine \/ nInvoke' # nInvoke)) =>
                 (outcome'.tag # "Cancelled" /\ nInvoke' \in {0, 1}))]_vars

C16_Witness ==
    /\ outcome.tag = "Cancelled"
    /\ cur = "userauth_password"
    /\ nInvoke = 2
    /\ engine.pending.left = 0
    /\ afterCancel = "ready"

\* the single task starts a method of the session
SessionCall ==
    \/ \E op \in AdaptedOps, a \in 0 .. MaxFileSize : AdaptedCall(op, a)
    \/ agent
    \/ userauth_agent
    \/ userauth_agent_with_try_next

\* C17 as stated: a method can make its first closure invocation only when
\* the previous method has resolved, with success or with a fatal error.
C17_StrictlySequential ==
    ENABLED SessionCall => (cur = "none" \/ outcome.tag \in {"Ok", "Err"})

\* C17: under single-task use at most one engine call of the session is in
\* flight, that of the suspended method, and a method can make its first
\* closure invocation only when the previous method has resolved (success or
\* fatal error) or has been cancelled by its caller while suspended.
C17_SequentialUnlessCancelled ==
    /\ (ENABLED SessionCall =>
           /\ pc = "idle"
           /\ (cur = "none" \/ outcome.tag \in {"Ok", "Err", "Cancelled"}))
    /\ (pc = "waiting" =>
           /\ outcome = Pending
           /\ engine.pending.op = cur)

C17_Witness ==
    /\ afterCancel # "no"
    /\ ~resumed
    /\ cur = "userauth_password"
    /\ nInvoke = 1
    /\ outcome.tag = "Err"

\* C18: if the transport eventually becomes ready in a hinted direction, the
\* suspended task is then woken, and the engine would-blocks finitely often,
\* a suspended call eventually resolves with success or with an error that
\* is not would-block. The adapter has no retry limit of its own: a
\* suspended call is re-invoked exactly when a hinted direction is ready,
\* whatever the number of attempts made, and while none becomes ready it
\* leaves the suspension only through a failure of the wait itself.
C18_RetryLoopLiveness ==
    /\ (pc = "waiting") ~> (ret.tag \in {"Ok", "Err"} /\ ~IsWouldBlock(ret))
    /\ [](pc = "waiting" => (ENABLED Wake <=> hint \cap ready # {}))
    /\ [][(pc = "waiting" /\ hint \cap ready = {} /\ pc' # "waiting") =>
              ret' = Err("Io", "ConnectionReset")]_vars

C18_Witness ==
    /\ pc = "idle"
    /\ cur = "handshake"
    /\ nWait = MaxWouldBlock
    /\ nInvoke = MaxWouldBlock + 1
    /\ ret = Ok(0)

\* C19: converting an Error to an io::Error gives, for Error::Io, the
\* io::Error it holds, so that io::Error -> Error -> io::Error is the
\* identity and keeps the kind; for Error::Ssh2 and Error::Other it gives an
\* io::Error of kind Other that wraps the original. The conversion is
\* defined for all three variants and never gives kind WouldBlock for an
\* engine error.
C19_ErrorConversion ==
    /\ (conv.at = "io" /\ conv.n >= 1) =>
           /\ conv.io.kind \in IoErrorKinds
           /\ (conv.error.variant = "Io" => conv.io = conv.error.io)
           /\ (conv.error.variant \in {"Ssh2", "Other"} =>
                  /\ conv.io.kind = "Other"
                  /\ conv.io.inner = conv.error.inner)
           /\ (conv.error.variant = "Ssh2" => conv.io.kind # "WouldBlock")
    /\ (conv.at = "io" /\ conv.n >= 2 /\ conv.first.variant = "Io") =>
           conv.io = conv.first.io
    /\ (conv.at = "error" /\ conv.n >= 1) =>
           /\ conv.error.variant = "Io"
           /\ conv.error.io = conv.io

C19_Witness ==
    /\ conv.at = "io"
    /\ conv.n = 1
    /\ conv.error = ErrorSsh2([type |-> "Ssh2Error", code |-> "EAGAIN"])
    /\ conv.io = IoError("Other", [type |-> "Ssh2Error", code |-> "EAGAIN"])

\* C20: get_session switches the engine to non-blocking directly after
\* creating it, before any configuration field is applied and before the
\* engine is bound to the descriptor, for every configuration and for none;
\* no method of the session switches it back, so is_blocking() is false in
\* every state of a constructed session.
C20_EngineNonBlocking ==
    /\ (pc # "constructing" => (built = Ok(0) /\ ~is_blocking(engine)))
    /\ (pc = "constructing" /\ Len(calls) >= 2) =>
           /\ calls[1].fn = "Session::new"
           /\ calls[2] = EngineCall("set_blocking", TRUE, FALSE, 0, "")
           /\ ~engine.blocking
    /\ (pc = "constructing" /\ Len(calls) < 2) =>
           \A i \in 1 .. Len(calls) : calls[i].fn = "Session::new"

C20_Witness ==
    /\ built = Ok(0)
    /\ pc = "idle"
    /\ cur = "disconnect"
    /\ nWait >= 1
    /\ outcome = Ok(0)
    /\ ~is_blocking(engine)

====
